---- MODULE Spec2Model ----
(***************************************************************************)
(* A model of the embera artifact store (EmberaDataBase) and of the        *)
(* Embedding class: fingerprints, aliases, the directory tree, and the     *)
(* read / write / merge operations on problems, embeddings and result sets.*)
(*                                                                         *)
(* Encodings.                                                              *)
(*  - A node label is a pair <<"int", n>> (the Python int n) or            *)
(*    <<"str", k>> (the k-th string of a fixed alphabet of labels).        *)
(*  - hash() of an int is the int; hash() of a str is read from strhash,   *)
(*    the per-process salted table, chosen anew at every process start.    *)
(*  - hash() of a tuple is CPython's xxHash-style tuple hash, with the     *)
(*    64-bit word narrowed to HashMod and the primes reduced accordingly.  *)
(*  - A fingerprint string str(h) is ToString(h); an embedding file name   *)
(*    is a sequence of character codes, so that string comparison and      *)
(*    substring tests are computed as Python computes them.                *)
(***************************************************************************)
EXTENDS Integers, Sequences, FiniteSets, TLC

VARIABLES
    strhash,    \* hash() of each string label in the running process
    aliases,    \* EmberaDataBase.aliases, the in-memory alias table
    aliasDoc,   \* aliases.json: [exists, tab]
    dirs,       \* the directories that exist under the root
    bqmFiles,   \* files of the bqms subtree: [dir, name] -> serialized bqm
    embFiles,   \* files of the embeddings subtree: [dir, name] -> serialized embedding
    ssFiles,    \* files of the samplesets subtree: [dir, name] -> serialized sampleset
    ret,        \* the outcome of the last operation
    fpLog,      \* history: the fingerprint calls made, with their results
    ssLog,      \* history: the result sets written, with their locations
    nops,       \* number of write operations performed (bounded)
    embLog,     \* history: the embeddings written, with their directories
    procs,      \* the writers that run step by step: what each is doing
    classAttrs, \* the dicts held by the classes: EmberaDataBase.aliases, Embedding.properties
    stores,     \* the store instances of one process, one per root directory
    embObjs     \* the Embedding instances constructed, with the properties passed

vars == <<strhash, aliases, aliasDoc, dirs, bqmFiles, embFiles, ssFiles, ret, fpLog, ssLog, nops, embLog, procs, classAttrs, stores, embObjs>>

---------------------------------------------------------------------------
(* Bounds of the model *)

NInt == 3          \* int node labels 0 .. NInt-1
NStr == 2          \* string node labels: 0 .. NStr-1 index the label alphabet
MaxStrHash == 1    \* a string's salted hash is drawn from 0 .. MaxStrHash
MaxCalls == 2      \* fingerprint calls kept in the history
MaxBias == 1       \* biases are drawn from 0 .. MaxBias
NVars == 3         \* the embeddings compared map the variables 0 .. NVars-1
MaxLen == 3        \* their chains have 1 .. MaxLen nodes
MaxChain == 10     \* the longest chain of a stored embedding
MaxOps == 2        \* write operations in one run
MaxIndex == 1      \* index arguments are drawn from 0 .. MaxIndex
MaxRows == 1       \* rows of a result set handed to dump_sampleset
MaxOcc == 2        \* num_occurrences of a row is drawn from 1 .. MaxOcc
MaxNode == 11      \* target nodes of the one-node chains: 0 .. MaxNode
NProcs == 2        \* writers that run step by step
NRoots == 2        \* root directories with a store instance in one process

---------------------------------------------------------------------------
(* Python builtins: hash, ^, sorted, str *)

\* The width of a hash word (2^64 in CPython, narrowed here).
HashMod == 1024
\* _PyHASH_XXPRIME_1, _2, _5 and the length mask, reduced modulo HashMod.
XXPRIME_1 == 647
XXPRIME_2 == 847
XXPRIME_5 == 965
XXLenMask == 883

RECURSIVE Xor(_, _)
Xor(a, b) ==
    IF a = 0 THEN b
    ELSE IF b = 0 THEN a
    ELSE (((a % 2) + (b % 2)) % 2) + 2 * Xor(a \div 2, b \div 2)

\* rotate left by half a word
Rotl(x) == ((x * 32) % HashMod) + (x \div 32)

RECURSIVE TupleHashAcc(_, _)
TupleHashAcc(acc, lanes) ==
    IF lanes = <<>> THEN acc
    ELSE TupleHashAcc((Rotl((acc + Head(lanes) * XXPRIME_2) % HashMod) * XXPRIME_1) % HashMod,
                      Tail(lanes))

\* hash(tuple) given the hashes of the tuple's items
TupleHash(lanes) ==
    (TupleHashAcc(XXPRIME_5, lanes) + Xor(Len(lanes), Xor(XXPRIME_5, XXLenMask))) % HashMod

\* hash(label): an int hashes to itself, a str to its salted value
HashNode(n) == IF n[1] = "int" THEN n[2] ELSE strhash[n[2]]

\* hash(bias) of an integer-valued float
HashBias(b) == b

RECURSIVE Insert(_, _)
Insert(x, s) ==
    IF s = <<>> THEN <<x>>
    ELSE IF Head(s) <= x THEN <<Head(s)>> \o Insert(x, Tail(s))
    ELSE <<x>> \o s

\* sorted(list of ints)
RECURSIVE sorted(_)
sorted(s) ==
    IF s = <<>> THEN <<>>
    ELSE Insert(s[Len(s)], sorted(SubSeq(s, 1, Len(s) - 1)))

Range(s) == {s[i] : i \in DOMAIN s}

\* the items of a dict or set, in some iteration order
RECURSIVE Items(_)
Items(S) ==
    IF S = {} THEN <<>>
    ELSE LET x == CHOOSE y \in S : TRUE IN <<x>> \o Items(S \ {x})

---------------------------------------------------------------------------
(* Arguments.  Every argument of the API is a tagged value [kind, val]:     *)
(*   "str"   val = a string (an alias or a literal fingerprint)             *)
(*   "list"  val = a list of edge tuples                                    *)
(*   "graph" val = [nodes, edges, name, biased, nbias, ebias], a            *)
(*           networkx.Graph; it always has the attribute name ("" unless    *)
(*           set), and carries 'bias' data when biased                      *)
(*   "bqm"   val = [linear, quadratic, offset, vartype], a                  *)
(*           dimod.BinaryQuadraticModel (it has no attribute name)          *)
(*   "other" anything else                                                  *)

Str(s) == [kind |-> "str", val |-> s]
EdgeList(es) == [kind |-> "list", val |-> es]
Graph(ns, es, nm) ==
    [kind |-> "graph",
     val |-> [nodes |-> ns, edges |-> es, name |-> nm, biased |-> FALSE,
              nbias |-> <<>>, ebias |-> <<>>]]
Bqm(lin, quad) ==
    [kind |-> "bqm",
     val |-> [linear |-> lin, quadratic |-> quad, offset |-> 0, vartype |-> "SPIN"]]

---------------------------------------------------------------------------
(* The alias table.  A table maps a kind to a dict name -> id; all the     *)
(* operators below work on a table value, so that a handler that registers *)
(* an alias half way sees its own update in the steps that follow.         *)

NoAliases == <<>>

HasKind(al, kind) == kind \in DOMAIN al

\* self.aliases.get(kind, {})
KindAliases(al, kind) == IF HasKind(al, kind) THEN al[kind] ELSE <<>>

\* self.aliases.get(kind, {}).get(name, name)
Resolve(al, kind, name) ==
    IF name \in DOMAIN KindAliases(al, kind) THEN KindAliases(al, kind)[name] ELSE name

\* set_bqm_alias / set_source_alias / set_target_alias called with a string id:
\* the id is resolved as a string (id_*(str)), then aliases[kind][alias] = id
SetAliasStr(al, kind, id, alias) ==
    (kind :> ((alias :> Resolve(al, kind, id)) @@ KindAliases(al, kind))) @@ al

\* an outcome of a fingerprint step: the id, the table after it, whether
\* update_aliases ran, and whether it raised
FpOk(i, al, w) == [ok |-> TRUE, id |-> i, al |-> al, wrote |-> w]
FpErr(al, w) == [ok |-> FALSE, id |-> "", al |-> al, wrote |-> w]

\* the edge list __graph_key iterates over
EdgesOf(g) ==
    CASE g.kind = "bqm" -> Items(DOMAIN g.val.quadratic)
      [] g.kind = "graph" -> g.val.edges
      [] OTHER -> g.val

EdgeXor(e) == Xor(HashNode(e[1]), HashNode(e[2]))

\* __graph_key
GraphKey(g) ==
    LET edgelist == EdgesOf(g) IN
    TupleHash(sorted([i \in DOMAIN edgelist |-> EdgeXor(edgelist[i])]))

\* id_source and id_target (the same code, on the table of their kind)
IdGraph(al, kind, g) ==
    IF g.kind = "str" THEN FpOk(Resolve(al, kind, g.val), al, FALSE)
    ELSE IF g.kind \in {"bqm", "graph", "list"} THEN
        LET id == ToString(GraphKey(g)) IN
        IF g.kind = "graph"
        THEN FpOk(id, SetAliasStr(al, kind, id, g.val.name), TRUE)
        ELSE FpOk(id, al, FALSE)
    ELSE FpErr(al, FALSE)

IdSource(al, source) == IdGraph(al, "source", source)
IdTarget(al, target) == IdGraph(al, "target", target)

LinKeyBqm(b) ==
    LET vs == Items(DOMAIN b.linear) IN
    [i \in DOMAIN vs |-> Xor(HashNode(vs[i]), HashBias(b.linear[vs[i]]))]
QuadKeyBqm(b) ==
    LET es == Items(DOMAIN b.quadratic) IN
    [i \in DOMAIN es |-> Xor(EdgeXor(es[i]), HashBias(b.quadratic[es[i]]))]
LinKeyGraph(g) ==
    LET vs == Items(g.nodes) IN
    [i \in DOMAIN vs |-> Xor(HashNode(vs[i]), HashBias(g.nbias[vs[i]]))]
QuadKeyGraph(g) ==
    [i \in DOMAIN g.edges |-> Xor(EdgeXor(g.edges[i]), HashBias(g.ebias[g.edges[i]]))]

BiasKey(lin, quad) == ToString(Xor(TupleHash(sorted(lin)), TupleHash(sorted(quad))))

\* id_bqm
IdBqm(al, bqm) ==
    IF bqm.kind = "bqm" THEN
        FpOk(BiasKey(LinKeyBqm(bqm.val), QuadKeyBqm(bqm.val)), al, FALSE)
    ELSE IF bqm.kind = "graph" THEN
        IF ~bqm.val.biased /\ (bqm.val.nodes # {} \/ bqm.val.edges # <<>>)
        THEN FpErr(al, FALSE)   \* data['bias']: KeyError
        ELSE LET id == BiasKey(LinKeyGraph(bqm.val), QuadKeyGraph(bqm.val)) IN
             IF bqm.val.name # ""
             THEN FpOk(id, SetAliasStr(al, "bqm", id, bqm.val.name), TRUE)
             ELSE FpOk(id, al, FALSE)
    ELSE IF bqm.kind = "str" THEN FpOk(Resolve(al, "bqm", bqm.val), al, FALSE)
    ELSE FpErr(al, FALSE)

DocStale(r) == aliasDoc

\* update_aliases, when it ran: aliases.json holds the in-memory table
DocAfter(r) == IF r.wrote THEN [exists |-> TRUE, tab |-> r.al] ELSE aliasDoc

---------------------------------------------------------------------------
(* The Embedding class.  An embedding is [source_id, target_id, chains]:    *)
(* the dict itself (chains: variable -> list of target nodes; variables and *)
(* target nodes are ints) and the two ids set by __init__.                  *)

\* hash((u, v)) of an edge tuple
HashEdge(e) == TupleHash(<<HashNode(e[1]), HashNode(e[2])>>)

\* tuple(sorted(e)) for an edge of labels of one type
SortedEdge(e) == IF e[2][2] < e[1][2] THEN <<e[2], e[1]>> ELSE e

EdgeLeq(e, f) == e[1][2] < f[1][2] \/ (e[1][2] = f[1][2] /\ e[2][2] <= f[2][2])

RECURSIVE InsertEdge(_, _)
InsertEdge(x, s) ==
    IF s = <<>> THEN <<x>>
    ELSE IF EdgeLeq(Head(s), x) THEN <<Head(s)>> \o InsertEdge(x, Tail(s))
    ELSE <<x>> \o s

\* sorted((tuple(sorted(e)) for e in source))
RECURSIVE SortedEdges(_)
SortedEdges(es) ==
    IF es = <<>> THEN <<>>
    ELSE InsertEdge(SortedEdge(es[Len(es)]), SortedEdges(SubSeq(es, 1, Len(es) - 1)))

HashEdges(es) == TupleHash([i \in DOMAIN es |-> HashEdge(es[i])])

\* the source_id / target_id __init__ computes from its argument: an int
\* ([kind |-> "int"]) is taken as it is, a graph or a bqm by its edges in
\* iteration order, a list by its sorted edges
EndpointId(x) ==
    CASE x.kind = "int" -> x.val
      [] x.kind = "graph" -> HashEdges(x.val.edges)
      [] x.kind = "bqm" -> HashEdges(Items(DOMAIN x.val.quadratic))
      [] OTHER -> HashEdges(SortedEdges(x.val))

\* Embedding.__init__
Embedding(source, target, embedding) ==
    [source_id |-> EndpointId(source), target_id |-> EndpointId(target), chains |-> embedding]

\* chain_histogram: size -> number of chains of that size
ChainHistogram(e) ==
    LET sizes == {Len(e.chains[v]) : v \in DOMAIN e.chains} IN
    [sz \in sizes |-> Cardinality({v \in DOMAIN e.chains : Len(e.chains[v]) = sz})]

SetMax(S) == CHOOSE x \in S : \A y \in S : y <= x
SetMin(S) == CHOOSE x \in S : \A y \in S : x <= y

\* the flattened items of a histogram, largest size first
RECURSIVE FlattenDescending(_, _)
FlattenDescending(hist, S) ==
    IF S = {} THEN <<>>
    ELSE LET sz == SetMax(S) IN <<sz, hist[sz]>> \o FlattenDescending(hist, S \ {sz})

\* the same, smallest size first (sorted without reverse=True)
RECURSIVE FlattenAscending(_, _)
FlattenAscending(hist, S) ==
    IF S = {} THEN <<>>
    ELSE LET sz == SetMin(S) IN <<sz, hist[sz]>> \o FlattenAscending(hist, S \ {sz})

QualityKeyAscending(e) ==
    LET hist == ChainHistogram(e) IN FlattenAscending(hist, DOMAIN hist)

\* quality_key
QualityKey(e) ==
    LET hist == ChainHistogram(e) IN FlattenDescending(hist, DOMAIN hist)

\* Python's list comparison a < b: the first differing item decides, and a
\* proper prefix is smaller
ListLt(a, b) ==
    \/ \E i \in 1..Len(a) :
          /\ i <= Len(b)
          /\ a[i] < b[i]
          /\ \A j \in 1..(i - 1) : a[j] = b[j]
    \/ /\ Len(a) < Len(b)
       /\ \A j \in 1..Len(a) : a[j] = b[j]

ListLe(a, b) == ListLt(a, b) \/ a = b

\* __lt__, __le__, __gt__, __ge__
EmbLt(a, b) == ListLt(QualityKey(a), QualityKey(b))
EmbLe(a, b) == ListLe(QualityKey(a), QualityKey(b))
EmbGt(a, b) == ListLt(QualityKey(b), QualityKey(a))
EmbGe(a, b) == ListLe(QualityKey(b), QualityKey(a))

\* __embedding_key hashed: the tuple of (k, tuple(chain)) over the sorted keys
EmbeddingKeyHash(e) ==
    LET ks == sorted(Items(DOMAIN e.chains)) IN
    TupleHash([i \in DOMAIN ks |-> TupleHash(<<ks[i], TupleHash(e.chains[ks[i]])>>)])

\* __hash__: hash((source_id, target_id, embedding_key))
EmbHash(e) == TupleHash(<<e.source_id, e.target_id, EmbeddingKeyHash(e)>>)

\* __eq__: the keys are equal
EmbEq(a, b) ==
    a.source_id = b.source_id /\ a.target_id = b.target_id /\ a.chains = b.chains

\* character codes
Digit(d) == 48 + d
Underscore == <<95>>
EMPTY == <<69, 77, 80, 84, 89>>
DotJson == <<46, 106, 115, 111, 110>>

\* str(n) of a natural number
RECURSIVE DecStr(_)
DecStr(n) == IF n < 10 THEN <<Digit(n)>> ELSE DecStr(n \div 10) \o <<Digit(n % 10)>>

RECURSIVE Join(_)
Join(ss) == IF ss = <<>> THEN <<>> ELSE Head(ss) \o Join(Tail(ss))

\* the width of the hash suffix of an embedding id
HashIdWidth == 8

RECURSIVE ZeroPad(_, _)
ZeroPad(str, width) == IF Len(str) >= width THEN str ELSE ZeroPad(<<Digit(0)>> \o str, width)

\* f"{hash:08}"[-8:]
HashId(h) ==
    LET padded == ZeroPad(DecStr(h), HashIdWidth)
    IN SubSeq(padded, Len(padded) - HashIdWidth + 1, Len(padded))

\* Embedding.id
EmbId(e) ==
    LET qk == QualityKey(e)
        quality_id == IF DOMAIN e.chains = {} THEN EMPTY
                      ELSE Join([i \in DOMAIN qk |-> DecStr(qk[i])])
    IN quality_id \o Underscore \o HashId(EmbHash(e))

---------------------------------------------------------------------------
(* Inputs of the fingerprint calls *)

IntNodes == {<<"int", n>> : n \in 0..(NInt - 1)}
StrNodes == {<<"str", k>> : k \in 0..(NStr - 1)}

\* the undirected pairs over a set of labels of one type, each written once
Pairs(N) == {e \in N \X N : e[1][2] < e[2][2]}

\* the graphs over a set of labels, all with the same name
GraphsOver(N, nm) == {Graph(N, Items(E), nm) : E \in SUBSET Pairs(N)}
IntGraphs == GraphsOver(IntNodes, "g")
StrGraphs == GraphsOver(StrNodes, "")
GraphPool == IntGraphs \cup StrGraphs

ListPool == {EdgeList(Items(E)) : E \in SUBSET Pairs(StrNodes)}

\* problems over two variables: every linear bias, and at most one interaction
BqmVars == {<<"int", 0>>, <<"int", 1>>}
BqmPool ==
    {Bqm(lin, quad) :
        lin \in [BqmVars -> 0..MaxBias],
        quad \in {<<>>} \cup [{<<(<<"int", 0>>), (<<"int", 1>>)>>} -> 0..MaxBias]}

StrPool == {Str("g")}

SourceArgs == GraphPool \cup ListPool \cup BqmPool \cup StrPool
TargetArgs == StrGraphs \cup StrPool
BqmArgs == BqmPool \cup StrPool

Salts == [0..(NStr - 1) -> 0..MaxStrHash]

---------------------------------------------------------------------------
(* The state after EmberaDataBase(path) on an empty root, in a new process *)

RootDirs == {<<"bqms">>, <<"embeddings">>, <<"samplesets">>}

NoRet == [op |-> "none", ok |-> TRUE]

\* the writers, and a writer that is in no call
Procs == 1..NProcs
Idle ==
    [pc |-> "idle", op |-> "none", dir |-> <<>>, i |-> 0, loc |-> <<>>, new |-> <<>>,
     read |-> FALSE, record |-> <<>>, merged |-> <<>>, before |-> <<>>, err |-> "none"]

\* the roots, and a root no instance was constructed on: reg is the set of
\* <<alias, id>> registered through the instances of the root
Roots == 1..NRoots
NoStore ==
    [made |-> FALSE, own |-> FALSE, al |-> NoAliases,
     doc |-> [exists |-> FALSE, tab |-> NoAliases], reg |-> {}]

Init ==
    /\ strhash \in Salts
    /\ aliases = NoAliases
    /\ aliasDoc = [exists |-> FALSE, tab |-> NoAliases]
    /\ dirs = RootDirs
    /\ bqmFiles = <<>>
    /\ embFiles = <<>>
    /\ ssFiles = <<>>
    /\ ret = NoRet
    /\ fpLog = <<>>
    /\ ssLog = <<>>
    /\ nops = 0
    /\ embObjs = <<>>
    /\ stores = [i \in Roots |-> NoStore]
    /\ classAttrs = [aliases |-> NoAliases, properties |-> <<>>]
    /\ procs = [p \in Procs |-> Idle]
    /\ embLog = <<>>

\* the same, in a process whose string hashes play no part in the run
InitStore == Init /\ strhash = [k \in 0..(NStr - 1) |-> 0]

files == <<dirs, bqmFiles, embFiles, ssFiles>>

\* __init__ on a root: the table of aliases.json when the file exists
ReloadedAliases == IF aliasDoc.exists THEN aliasDoc.tab ELSE NoAliases

\* The process ends and a new one constructs the store on the same root:
\* a new hash salt, and the alias table read back from aliases.json.
Restart ==
    /\ strhash' \in Salts
    /\ aliases' = ReloadedAliases
    /\ ret' = NoRet
    /\ UNCHANGED <<aliasDoc, files, fpLog, ssLog, nops, embLog, procs, classAttrs, stores, embObjs>>

---------------------------------------------------------------------------
(* Fingerprint calls, with the history of their results *)

LogFp(fn, arg, r) ==
    fpLog' = Append(fpLog, [fn |-> fn, arg |-> arg, ok |-> r.ok, id |-> r.id, salt |-> strhash])

FpCall(fn, arg, r) ==
    /\ Len(fpLog) < MaxCalls
    /\ LogFp(fn, arg, r)
    /\ aliases' = r.al
    /\ aliasDoc' = DocAfter(r)
    /\ ret' = [op |-> fn, ok |-> r.ok, val |-> r.id]
    /\ UNCHANGED <<strhash, files, ssLog, nops, embLog, procs, classAttrs, stores, embObjs>>

IdSourceCall == \E g \in SourceArgs : FpCall("id_source", g, IdSource(aliases, g))
IdTargetCall == \E g \in TargetArgs : FpCall("id_target", g, IdTarget(aliases, g))
IdBqmCall == \E b \in BqmArgs : FpCall("id_bqm", b, IdBqm(aliases, b))

NextFp == IdSourceCall \/ IdTargetCall \/ IdBqmCall \/ Restart

SpecFp == Init /\ [][NextFp]_vars

---------------------------------------------------------------------------
(* Comparing embeddings *)

IntId(n) == [kind |-> "int", val |-> n]

\* the embedding whose chains have the given lengths, laid out one after the
\* other on the target nodes 0, 1, 2, ...
RECURSIVE ChainStart(_, _)
ChainStart(lens, v) == IF v = 0 THEN 0 ELSE ChainStart(lens, v - 1) + lens[v - 1]

Chains(lens) ==
    [v \in DOMAIN lens |-> [i \in 1..lens[v] |-> ChainStart(lens, v) + i - 1]]

EmbVars == 0..(NVars - 1)

\* one embedding for every multiset of NVars chain lengths, and the empty one
OrderPool ==
    {Embedding(IntId(1), IntId(2), Chains(lens)) :
        lens \in {l \in [EmbVars -> 1..MaxLen] : \A v \in EmbVars : v > 0 => l[v - 1] <= l[v]}}
    \cup {Embedding(IntId(1), IntId(2), <<>>)}

\* a < b, b < a, b < c and a < c evaluated for three embeddings (once per run)
CompareCall ==
    \E a, b, c \in OrderPool :
        /\ ret.op = "none"
        /\ ret' = [op |-> "compare", ok |-> TRUE, a |-> a, b |-> b, c |-> c,
                   ab |-> EmbLt(a, b), ba |-> EmbLt(b, a),
                   bc |-> EmbLt(b, c), ac |-> EmbLt(a, c)]
        /\ UNCHANGED <<strhash, aliases, aliasDoc, files, fpLog, ssLog, nops, embLog, procs, classAttrs, stores, embObjs>>

NextOrder == CompareCall

SpecOrder == InitStore /\ [][NextOrder]_vars

---------------------------------------------------------------------------
(* The directory tree.  A directory is the sequence of its path components *)
(* below the root; a file is [dir, name].                                  *)

\* id step r1 followed by id step r2 (computed on r1.al): r2 does not run
\* when r1 raised
After(r1, r2) == IF ~r1.ok THEN r1 ELSE [r2 EXCEPT !.wrote = r1.wrote \/ r2.wrote]

Prefixes(path) == {SubSeq(path, 1, n) : n \in 1..Len(path)}

\* get_path: every missing directory of dir_path is created
GetPath(ds, dir_path) == ds \cup Prefixes(dir_path)

File(dir, name) == [dir |-> dir, name |-> name]

FilesIn(F, d) == {k \in DOMAIN F : k.dir = d}
SubDirs(d) == {p \in dirs : Len(p) = Len(d) + 1 /\ SubSeq(p, 1, Len(d)) = d}

\* the orders in which a directory listing may return a set of entries
RECURSIVE Listings(_)
Listings(S) ==
    IF S = {} THEN {<<>>}
    ELSE UNION {{<<x>> \o rest : rest \in Listings(S \ {x})} : x \in S}

\* a walk that lists every file of the tree
WalksWholeTree(F, top) == Listings(DOMAIN F)

\* a walk that lists the top directory alone
WalksTopOnly(F, top) ==
    IF top \notin dirs THEN {<<>>} ELSE Listings(FilesIn(F, top))

\* os.walk(top): the (root, file) pairs it yields, a directory's files first
\* and then its subdirectories one after the other, each listing in any order;
\* nothing when top is no directory
RECURSIVE Walks(_, _)
RECURSIVE SubWalks(_, _)
Walks(F, top) ==
    IF top \notin dirs THEN {<<>>}
    ELSE {fs \o rest : fs \in Listings(FilesIn(F, top)), rest \in SubWalks(F, SubDirs(top))}
SubWalks(F, D) ==
    IF D = {} THEN {<<>>}
    ELSE UNION {{w \o rest : w \in Walks(F, d), rest \in SubWalks(F, D \ {d})} : d \in D}

\* os.listdir(d): the files and the subdirectories of d, in any order
DirEntries(F, d) ==
    {[kind |-> "file", key |-> k] : k \in FilesIn(F, d)}
    \cup {[kind |-> "dir", key |-> p] : p \in SubDirs(d)}
ListDir(F, d) == Listings(DirEntries(F, d))

\* an entry of the list the walk collected sorts before another: the file
\* names compared as Python compares str
NameLeq(a, b) == ListLe(a.name, b.name)

RECURSIVE InsertByName(_, _)
InsertByName(x, s) ==
    IF s = <<>> THEN <<x>>
    ELSE IF NameLeq(Head(s), x) THEN <<Head(s)>> \o InsertByName(x, Tail(s))
    ELSE <<x>> \o s

\* embedding_filenames.sort(key=lambda entry: entry[1])
RECURSIVE SortByName(_)
SortByName(s) ==
    IF s = <<>> THEN <<>>
    ELSE InsertByName(s[Len(s)], SortByName(SubSeq(s, 1, Len(s) - 1)))

---------------------------------------------------------------------------
(* Embeddings in the store *)

\* _dump(embedding_obj, fp, cls=EmberaEncoder) and _load(fp, cls=EmberaDecoder)
EmberaEncode(e) ==
    [type |-> "Embedding", source_id |-> e.source_id, target_id |-> e.target_id,
     embedding |-> LET ks == sorted(Items(DOMAIN e.chains))
                   IN [i \in DOMAIN ks |-> <<ks[i], e.chains[ks[i]]>>]]
EmberaDecode(doc) ==
    Embedding(IntId(doc.source_id), IntId(doc.target_id),
              [k \in {doc.embedding[i][1] : i \in DOMAIN doc.embedding} |->
                 LET i == CHOOSE j \in DOMAIN doc.embedding : doc.embedding[j][1] = k
                 IN doc.embedding[i][2]])

\* an embedding argument: [kind |-> "embedding", val |-> an Embedding], a
\* plain dict [kind |-> "dict"], or a string
EmbArg(e) == [kind |-> "embedding", val |-> e]

\* what every handler does with the alias table and the outcome
Finish(r, op, ok, val) ==
    /\ aliases' = r.al
    /\ aliasDoc' = DocAfter(r)
    /\ ret' = [op |-> op, ok |-> ok, val |-> val]

EmbeddingsDir(source_id, target_id, tags) == <<"embeddings", source_id, target_id>> \o tags

\* dump_embedding
DumpEmbedding(source, target, embedding, tags) ==
    LET r == After(IdSource(aliases, source), IdTarget(IdSource(aliases, source).al, target))
        d == EmbeddingsDir(IdSource(aliases, source).id, r.id, tags)
    IN
    /\ nops < MaxOps
    /\ nops' = nops + 1
    /\ IF ~r.ok \/ embedding.kind # "embedding"
       THEN \* ValueError of id_source / id_target, or Embedding(embedding): TypeError
            /\ Finish(r, "dump_embedding", FALSE, "error")
            /\ UNCHANGED <<dirs, embFiles, embLog>>
       ELSE /\ dirs' = GetPath(dirs, d)
            /\ embFiles' = (File(d, EmbId(embedding.val) \o DotJson) :> EmberaEncode(embedding.val))
                              @@ embFiles
            /\ embLog' = Append(embLog, [dir |-> d, embedding |-> embedding.val])
            /\ Finish(r, "dump_embedding", TRUE, "none")
    /\ UNCHANGED <<strhash, bqmFiles, ssFiles, fpLog, ssLog, procs, classAttrs, stores, embObjs>>

\* load_embeddings, as a function of the table: the outcome for every order
\* in which the walk may list the tree
LoadEmbeddings(al, source, target, tags) ==
    LET r1 == IdSource(al, source)
        r == After(r1, IdTarget(r1.al, target))
    IN IF ~r.ok THEN {[r |-> r, ok |-> FALSE, entries |-> <<>>, val |-> <<>>]}
       ELSE {[r |-> r, ok |-> TRUE, entries |-> SortByName(w),
              val |-> LET es == SortByName(w)
                      IN [i \in DOMAIN es |-> EmberaDecode(embFiles[es[i]])]] :
                w \in Walks(embFiles, EmbeddingsDir(r1.id, r.id, tags))}

LoadEmbeddingsCall(source, target, tags) ==
    \E out \in LoadEmbeddings(aliases, source, target, tags) :
        /\ aliases' = out.r.al
        /\ aliasDoc' = DocAfter(out.r)
        /\ ret' = [op |-> "load_embeddings", ok |-> out.ok, val |-> out.val,
                   entries |-> out.entries,
                   source_id |-> IdSource(aliases, source).id, target_id |-> out.r.id,
                   tags |-> tags]
        /\ UNCHANGED <<strhash, files, fpLog, ssLog, nops, embLog, procs, classAttrs, stores, embObjs>>

\* load_embedding
LoadEmbeddingCall(source, target, tags, index) ==
    LET r1 == IdSource(aliases, source)
        r == After(r1, IdTarget(r1.al, target))
        d == EmbeddingsDir(r1.id, r.id, tags)
        Ret(ok, val) == [op |-> "load_embedding", ok |-> ok, val |-> val,
                         source_id |-> r1.id, target_id |-> r.id, tags |-> tags,
                         index |-> index]
    IN
    /\ aliases' = r.al
    /\ aliasDoc' = DocAfter(r)
    /\ IF ~r.ok THEN ret' = Ret(FALSE, "ValueError")
       ELSE IF d \notin dirs THEN ret' = Ret(FALSE, "FileNotFoundError")
       ELSE \E embedding_filenames \in ListDir(embFiles, d) :
            IF embedding_filenames = <<>> THEN ret' = Ret(FALSE, "ValueError")
            ELSE IF index + 1 > Len(embedding_filenames) THEN ret' = Ret(FALSE, "IndexError")
            ELSE LET entry == embedding_filenames[index + 1] IN
                 IF entry.kind = "dir" THEN ret' = Ret(FALSE, "IsADirectoryError")
                 ELSE ret' = Ret(TRUE, EmberaDecode(embFiles[entry.key]))
    /\ UNCHANGED <<strhash, files, fpLog, ssLog, nops, embLog, procs, classAttrs, stores, embObjs>>

\* the inputs of the embedding operations
Tags == {"x", "y"}
TagLists ==
    {<<>>} \cup {<<t>> : t \in Tags} \cup {p \in Tags \X Tags : p[1] # p[2]}

StoreLens == {1, MaxChain - 1, MaxChain}
EmbPool ==
    {Embedding(IntId(1), IntId(2), Chains([v \in 0..1 |-> IF v = 0 THEN n ELSE 1])) :
        n \in StoreLens}

EmbSources == {Str("s")}
EmbTargets == {Str("t")}
EmbTags == {<<>>, <<"x">>}

NextEmb ==
    \/ \E s \in EmbSources, t \in EmbTargets, e \in EmbPool, tags \in EmbTags :
          DumpEmbedding(s, t, EmbArg(e), tags)
    \/ \E s \in EmbSources, t \in EmbTargets, tags \in EmbTags :
          LoadEmbeddingsCall(s, t, tags)
    \/ \E s \in EmbSources, t \in EmbTargets, tags \in EmbTags, index \in 0..MaxIndex :
          LoadEmbeddingCall(s, t, tags, index)

SpecEmb == InitStore /\ [][NextEmb]_vars

---------------------------------------------------------------------------
(* Problems in the store *)

IndexOf(seq, x) == CHOOSE i \in DOMAIN seq : seq[i] = x

\* bqm.to_serializable(bias_dtype=numpy.float64): the labels in iteration
\* order, the linear biases by position, the quadratic biases by the
\* positions of their two variables
BqmSerZeroBias(b) ==
    LET labels == Items(DOMAIN b.linear)
        pairs == Items(DOMAIN b.quadratic)
    IN [type |-> "BinaryQuadraticModel",
        variable_labels |-> labels,
        linear_biases |-> [i \in DOMAIN labels |-> b.linear[labels[i]]],
        quadratic_biases |->
            [i \in DOMAIN pairs |->
                <<IndexOf(labels, pairs[i][1]), IndexOf(labels, pairs[i][2]), 0>>],
        offset |-> b.offset,
        variable_type |-> b.vartype]

BqmSer(b) ==
    LET labels == Items(DOMAIN b.linear)
        pairs == Items(DOMAIN b.quadratic)
    IN [type |-> "BinaryQuadraticModel",
        variable_labels |-> labels,
        linear_biases |-> [i \in DOMAIN labels |-> b.linear[labels[i]]],
        quadratic_biases |->
            [i \in DOMAIN pairs |->
                <<IndexOf(labels, pairs[i][1]), IndexOf(labels, pairs[i][2]),
                  b.quadratic[pairs[i]]>>],
        offset |-> b.offset,
        variable_type |-> b.vartype]

\* dimod.BinaryQuadraticModel.from_serializable
BqmDeser(doc) ==
    LET labels == doc.variable_labels
        q == doc.quadratic_biases
        pairOf(i) == <<labels[q[i][1]], labels[q[i][2]]>>
    IN [linear |-> [v \in Range(labels) |-> doc.linear_biases[IndexOf(labels, v)]],
        quadratic |-> [e \in {pairOf(i) : i \in DOMAIN q} |->
                          q[CHOOSE i \in DOMAIN q : pairOf(i) = e][3]],
        offset |-> doc.offset,
        vartype |-> doc.variable_type]

\* a file that open(path, 'w+') created and nothing was written to
EmptyFile == [type |-> "empty"]

BqmsDir(source_id, tags) == <<"bqms", source_id>> \o tags

\* dump_bqm
DumpBqm(bqm, tags) ==
    LET r1 == IdSource(aliases, bqm)
        r == After(r1, IdBqm(r1.al, bqm))
        d == BqmsDir(r1.id, tags)
    IN
    /\ nops < MaxOps
    /\ nops' = nops + 1
    /\ IF ~r.ok
       THEN /\ Finish(r, "dump_bqm", FALSE, "ValueError")
            /\ UNCHANGED <<dirs, bqmFiles>>
       ELSE /\ dirs' = GetPath(dirs, d)
            /\ IF bqm.kind = "bqm"
               THEN /\ bqmFiles' = (File(d, r.id) :> BqmSer(bqm.val)) @@ bqmFiles
                    /\ Finish(r, "dump_bqm", TRUE, r.id)
               ELSE \* the file is opened for writing, then bqm.to_serializable: AttributeError
                    /\ bqmFiles' = (File(d, r.id) :> EmptyFile) @@ bqmFiles
                    /\ Finish(r, "dump_bqm", FALSE, "AttributeError")
    /\ UNCHANGED <<strhash, embFiles, ssFiles, fpLog, ssLog, embLog, procs, classAttrs, stores, embObjs>>

\* load_bqms
LoadBqmsCall(source, tags) ==
    LET r == IdSource(aliases, source)
        Ret(ok, val, entries) ==
            [op |-> "load_bqms", ok |-> ok, val |-> val, entries |-> entries,
             source_id |-> r.id, tags |-> tags]
    IN
    /\ aliases' = r.al
    /\ aliasDoc' = DocAfter(r)
    /\ IF ~r.ok THEN ret' = Ret(FALSE, "ValueError", <<>>)
       ELSE \E bqm_filenames \in Walks(bqmFiles, BqmsDir(r.id, tags)) :
            IF \E i \in DOMAIN bqm_filenames : bqmFiles[bqm_filenames[i]] = EmptyFile
            THEN ret' = Ret(FALSE, "JSONDecodeError", <<>>)
            ELSE ret' = Ret(TRUE,
                            [i \in DOMAIN bqm_filenames |-> BqmDeser(bqmFiles[bqm_filenames[i]])],
                            bqm_filenames)
    /\ UNCHANGED <<strhash, files, fpLog, ssLog, nops, embLog, procs, classAttrs, stores, embObjs>>

\* load_bqm
LoadBqmCall(source, tags, index) ==
    LET r == IdSource(aliases, source)
        d == BqmsDir(r.id, tags)
        Ret(ok, val) == [op |-> "load_bqm", ok |-> ok, val |-> val, source |-> source,
                         source_id |-> r.id, tags |-> tags, index |-> index]
    IN
    /\ aliases' = r.al
    /\ aliasDoc' = DocAfter(r)
    /\ IF ~r.ok THEN ret' = Ret(FALSE, "ValueError")
       ELSE IF d \notin dirs THEN ret' = Ret(FALSE, "FileNotFoundError")
       ELSE \E bqm_filenames \in ListDir(bqmFiles, d) :
            IF bqm_filenames = <<>> THEN ret' = Ret(FALSE, "ValueError")
            ELSE IF index + 1 > Len(bqm_filenames) THEN ret' = Ret(FALSE, "IndexError")
            ELSE LET entry == bqm_filenames[index + 1] IN
                 IF entry.kind = "dir" THEN ret' = Ret(FALSE, "IsADirectoryError")
                 ELSE IF bqmFiles[entry.key] = EmptyFile THEN ret' = Ret(FALSE, "JSONDecodeError")
                 ELSE ret' = Ret(TRUE, BqmDeser(bqmFiles[entry.key]))
    /\ UNCHANGED <<strhash, files, fpLog, ssLog, nops, embLog, procs, classAttrs, stores, embObjs>>

\* the inputs of the problem operations: the problems, and the strings that
\* are the problem fingerprint or the source fingerprint of one of them
BqmTags == {<<>>, <<"x">>}
StoreBqms == {b \in BqmPool : b.val.linear[<<"int", 1>>] = 0}
BqmFingerprints == {Str(IdBqm(NoAliases, b).id) : b \in StoreBqms}
SourceFingerprints == {Str(IdSource(NoAliases, b).id) : b \in StoreBqms}
LoadBqmSources == StoreBqms \cup BqmFingerprints \cup SourceFingerprints

NextBqm ==
    \/ \E b \in StoreBqms \cup StrPool, tags \in BqmTags : DumpBqm(b, tags)
    \/ \E s \in LoadBqmSources, tags \in BqmTags : LoadBqmsCall(s, tags)
    \/ \E s \in LoadBqmSources, tags \in BqmTags, index \in 0..MaxIndex :
          LoadBqmCall(s, tags, index)

SpecBqm == InitStore /\ [][NextBqm]_vars

---------------------------------------------------------------------------
(* Result sets in the store.  A result set is the sequence of its rows     *)
(* [sample, num_occurrences, unembedded].                                  *)

\* id_embedding: an Embedding gives its id, a str is resolved, and a dict
\* goes through Embedding(embedding), which lacks two arguments: TypeError
IdEmbedding(al, embedding) ==
    IF embedding.kind = "embedding" THEN FpOk(EmbId(embedding.val), al, FALSE)
    ELSE IF embedding.kind = "str" THEN FpOk(Resolve(al, "embedding", embedding.val), al, FALSE)
    ELSE FpErr(al, FALSE)

ConcatenateDropRecord(sampleset, record) == sampleset
ConcatenateKeepRecord(sampleset, record) == record

\* a merge that takes the written rows twice
ConcatenateTwice(sampleset, record) == sampleset \o sampleset \o record

\* dimod.concatenate((sampleset, record)): the rows of both, one after the other
Concatenate(sampleset, record) == sampleset \o record

\* the total occurrence count of a result set
RECURSIVE Total(_)
Total(ss) == IF ss = <<>> THEN 0 ELSE Head(ss).num_occurrences + Total(Tail(ss))

\* _dump(sampleset, fp, cls=DimodEncoder) and _load(fp, cls=DimodDecoder)
DimodEncode(ss) ==
    [type |-> "SampleSet",
     sample_data |-> [i \in DOMAIN ss |-> ss[i].sample],
     num_occurrences |-> [i \in DOMAIN ss |-> ss[i].num_occurrences],
     unembedded |-> [i \in DOMAIN ss |-> ss[i].unembedded]]
DimodDecode(doc) ==
    [i \in DOMAIN doc.sample_data |->
        [sample |-> doc.sample_data[i], num_occurrences |-> doc.num_occurrences[i],
         unembedded |-> doc.unembedded[i]]]

SamplesetsDir(bqm_id, target_id, tags) == <<"samplesets", bqm_id, target_id>> \o tags

\* dump_sampleset
DumpSampleset(bqm, target, embedding, sampleset, tags) ==
    LET r1 == IdBqm(aliases, bqm)
        r2 == After(r1, IdTarget(r1.al, target))
        r == After(r2, IdEmbedding(r2.al, embedding))
        d == SamplesetsDir(r1.id, r2.id, tags)
        sampleset_path == File(d, r.id \o DotJson)
        merged == IF sampleset_path \in DOMAIN ssFiles
                  THEN Concatenate(sampleset, DimodDecode(ssFiles[sampleset_path]))
                  ELSE sampleset
    IN
    /\ nops < MaxOps
    /\ nops' = nops + 1
    /\ IF ~r.ok
       THEN /\ Finish(r, "dump_sampleset", FALSE, "error")
            /\ UNCHANGED <<dirs, ssFiles, ssLog>>
       ELSE /\ dirs' = GetPath(dirs, d)
            /\ ssFiles' = (sampleset_path :> DimodEncode(merged)) @@ ssFiles
            /\ ssLog' = Append(ssLog, [loc |-> sampleset_path, sampleset |-> sampleset])
            /\ Finish(r, "dump_sampleset", TRUE, "none")
    /\ UNCHANGED <<strhash, bqmFiles, embFiles, fpLog, embLog, procs, classAttrs, stores, embObjs>>

\* sampleset_filename in filename
IsSubstring(a, b) ==
    \E i \in 0..(Len(b) - Len(a)) : SubSeq(b, i + 1, i + Len(a)) = a

\* os.path.splitext(filename)[0] of a name that ends in .json
SplitExt(filename) == SubSeq(filename, 1, Len(filename) - Len(DotJson))

\* unembed_sampleset: one row for every row, with the same num_occurrences
Unembed(ss) == [i \in DOMAIN ss |-> [ss[i] EXCEPT !.unembedded = TRUE]]

NoEmbedding == [kind |-> "str", val |-> <<>>]

\* load_samplesets, as a function of the table: the outcomes it may have.
\* The files are taken in walk order; without an embedding argument each one
\* is unembedded through the stored embedding its name points at.
RECURSIVE LoadEach(_, _, _, _, _)
LoadEach(r, bqm, target_id, names, acc) ==
    IF ~r.ok \/ names = <<>> THEN {[r |-> r, val |-> acc]}
    ELSE LET k == Head(names)
             ss == DimodDecode(ssFiles[k])
         IN IF bqm.kind # "bqm"
            THEN {[r |-> [r EXCEPT !.ok = FALSE], val |-> "ValueError"]}
            ELSE LET rs == IdSource(r.al, bqm)
                     outs == LoadEmbeddings(rs.al, Str(rs.id), Str(target_id), <<>>)
                 IN UNION {
                      LET ra == [o.r EXCEPT !.wrote = r.wrote \/ rs.wrote \/ o.r.wrote]
                          found == {i \in DOMAIN o.val : EmbId(o.val[i]) = SplitExt(k.name)}
                      IN IF ~o.ok \/ found = {}
                         THEN {[r |-> [ra EXCEPT !.ok = FALSE], val |-> "StopIteration"]}
                         ELSE LoadEach(ra, bqm, target_id, Tail(names), Append(acc, Unembed(ss)))
                      : o \in outs}

LoadSamplesets(al, bqm, target, tags, embedding) ==
    LET r1 == IdBqm(al, bqm)
        r2 == After(r1, IdTarget(r1.al, target))
    IN IF ~r2.ok THEN {[r |-> r2, val |-> "ValueError"]}
       ELSE IF embedding.kind = "embedding"
       THEN \* embedding != "": Embedding.__ne__ calls other.__key(), which a str lacks
            {[r |-> [r2 EXCEPT !.ok = FALSE], val |-> "AttributeError"]}
       ELSE LET r == IF embedding = NoEmbedding THEN r2
                     ELSE After(r2, IdEmbedding(r2.al, embedding))
                embedding_id == IF embedding = NoEmbedding THEN <<>> ELSE r.id
            IN IF ~r.ok THEN {[r |-> r, val |-> "TypeError"]}
               ELSE UNION {
                      LET names == SelectSeq(w, LAMBDA k : IsSubstring(embedding_id, k.name))
                      IN IF embedding # NoEmbedding
                         THEN {[r |-> r, val |-> [i \in DOMAIN names |-> DimodDecode(ssFiles[names[i]])]]}
                         ELSE LoadEach(r, bqm, r2.id, names, <<>>)
                      : w \in Walks(ssFiles, SamplesetsDir(r1.id, r2.id, tags))}

LoadSamplesetsCall(bqm, target, tags, embedding) ==
    \E out \in LoadSamplesets(aliases, bqm, target, tags, embedding) :
        /\ aliases' = out.r.al
        /\ aliasDoc' = DocAfter(out.r)
        /\ ret' = [op |-> "load_samplesets", ok |-> out.r.ok, val |-> out.val,
                   tags |-> tags, embedding |-> embedding]
        /\ UNCHANGED <<strhash, files, fpLog, ssLog, nops, embLog, procs, classAttrs, stores, embObjs>>

RECURSIVE ConcatenateAll(_)
ConcatenateAll(samplesets) ==
    IF samplesets = <<>> THEN <<>>
    ELSE Concatenate(Head(samplesets), ConcatenateAll(Tail(samplesets)))

\* load_sampleset
LoadSamplesetCall(bqm, target, tags, embedding) ==
    \E out \in LoadSamplesets(aliases, bqm, target, tags, embedding) :
        /\ aliases' = out.r.al
        /\ aliasDoc' = DocAfter(out.r)
        /\ ret' = LET Ret(ok, val) ==
                          [op |-> "load_sampleset", ok |-> ok, val |-> val,
                           tags |-> tags, embedding |-> embedding,
                           bqm_id |-> IdBqm(aliases, bqm).id,
                           target_id |-> IdTarget(IdBqm(aliases, bqm).al, target).id]
                  IN IF ~out.r.ok THEN Ret(FALSE, out.val)
                     ELSE IF out.val = <<>> THEN Ret(FALSE, "ValueError")
                     ELSE Ret(TRUE, ConcatenateAll(out.val))
        /\ UNCHANGED <<strhash, files, fpLog, ssLog, nops, embLog, procs, classAttrs, stores, embObjs>>

\* the inputs of the result-set operations
Rows == [sample : 0..1, num_occurrences : 1..MaxOcc, unembedded : {FALSE}]
SsPool == UNION {[1..n -> Rows] : n \in 1..MaxRows}

SsBqms == {Str("p")}
SsTargets == {Str("t")}
SsTags == {<<>>, <<"x">>}
SsEmbs == {EmbArg(e) : e \in {x \in EmbPool : Len(x.chains[0]) = 1}} \cup {[kind |-> "str", val |-> <<101>>]}

NextSamples ==
    \/ \E b \in SsBqms, t \in SsTargets, e \in SsEmbs, ss \in SsPool, tags \in SsTags :
          DumpSampleset(b, t, e, ss, tags)
    \/ \E b \in SsBqms, t \in SsTargets, e \in SsEmbs \cup {NoEmbedding}, tags \in SsTags :
          LoadSamplesetsCall(b, t, tags, e)
    \/ \E b \in SsBqms, t \in SsTargets, e \in SsEmbs \cup {NoEmbedding}, tags \in SsTags :
          LoadSamplesetCall(b, t, tags, e)

SpecSamples == InitStore /\ [][NextSamples]_vars

---------------------------------------------------------------------------
(* Tags: writes under every tag list, enumerations under every tag filter *)

TagEmbs == {e \in EmbPool : Len(e.chains[0]) = 1}
TagBqms == {b \in StoreBqms : b.val.linear[<<"int", 0>>] = 0 /\ b.val.quadratic = <<>>}

NextTags ==
    \/ \E s \in EmbSources, t \in EmbTargets, e \in TagEmbs, tags \in TagLists :
          DumpEmbedding(s, t, EmbArg(e), tags)
    \/ \E s \in EmbSources, t \in EmbTargets, tags \in TagLists :
          LoadEmbeddingsCall(s, t, tags)
    \/ \E b \in TagBqms, tags \in TagLists : DumpBqm(b, tags)
    \/ \E b \in TagBqms, tags \in TagLists : LoadBqmsCall(b, tags)

SpecTags == InitStore /\ [][NextTags]_vars

---------------------------------------------------------------------------
(* Registering aliases, and all the operations of the store together *)

RegisterEveryKind(r, kind, alias) ==
    [r EXCEPT !.al = [k \in DOMAIN r.al \cup {kind} |->
                         (alias :> r.id) @@ KindAliases(r.al, k)],
              !.wrote = TRUE]

\* aliases[kind][alias] = id, then update_aliases
Register(r, kind, alias) ==
    [r EXCEPT !.al = (kind :> ((alias :> r.id) @@ KindAliases(r.al, kind))) @@ r.al,
              !.wrote = TRUE]

SetAlias(r, kind, alias, op) ==
    /\ aliases' = IF r.ok THEN Register(r, kind, alias).al ELSE r.al
    /\ aliasDoc' = IF r.ok THEN DocAfter(Register(r, kind, alias)) ELSE DocAfter(r)
    /\ ret' = IF r.ok THEN [op |-> op, ok |-> TRUE, val |-> r.id, alias |-> alias]
                      ELSE [op |-> op, ok |-> FALSE, val |-> "error", alias |-> alias]
    /\ UNCHANGED <<strhash, files, fpLog, ssLog, nops, embLog, procs, classAttrs, stores, embObjs>>

\* set_bqm_alias
SetBqmAlias(bqm, alias) == SetAlias(IdBqm(aliases, bqm), "bqm", alias, "set_bqm_alias")

\* set_source_alias
SetSourceAlias(source, alias) ==
    SetAlias(IdSource(aliases, source), "source", alias, "set_source_alias")

\* set_target_alias
SetTargetAlias(target, alias) ==
    SetAlias(IdTarget(aliases, target), "target", alias, "set_target_alias")

\* set_embedding_alias: assert(isinstance(embedding, Embedding)) comes first
SetEmbeddingAlias(embedding, alias) ==
    SetAlias(IF embedding.kind = "embedding" THEN IdEmbedding(aliases, embedding)
             ELSE FpErr(aliases, FALSE),
             "embedding", alias, "set_embedding_alias")

\* the inputs: one problem, one embedding, the names "p", "s", "t" and the
\* aliases "q" (of problem "p") and "e" (of the embedding)
TheBqm == CHOOSE b \in TagBqms : TRUE
TheEmb == CHOOSE e \in TagEmbs : TRUE
AllBqms == {TheBqm, Str("p"), Str("q")}
AllEmbs == {EmbArg(TheEmb), [kind |-> "str", val |-> <<101>>]}

\* the result sets written here: one sample value, every occurrence count
StoreSamplesets == {ss \in SsPool : \A i \in DOMAIN ss : ss[i].sample = 0}

NextStore ==
    \/ DumpBqm(TheBqm, <<>>)
    \/ \E s \in EmbSources \cup {TheBqm}, t \in EmbTargets :
          DumpEmbedding(s, t, EmbArg(TheEmb), <<>>)
    \/ \E b \in AllBqms, t \in EmbTargets, ss \in StoreSamplesets :
          DumpSampleset(b, t, EmbArg(TheEmb), ss, <<>>)
    \/ SetBqmAlias(Str("p"), "q")
    \/ \E s \in EmbSources : SetSourceAlias(s, "a")
    \/ \E t \in EmbTargets : SetTargetAlias(t, "a")
    \/ \E e \in AllEmbs : SetEmbeddingAlias(e, <<101>>)
    \/ LoadBqmsCall(TheBqm, <<>>)
    \/ LoadBqmCall(TheBqm, <<>>, 0)
    \/ \E s \in EmbSources, t \in EmbTargets : LoadEmbeddingsCall(s, t, <<>>)
    \/ \E s \in EmbSources, t \in EmbTargets : LoadEmbeddingCall(s, t, <<>>, 0)
    \/ \E b \in AllBqms, t \in EmbTargets, e \in AllEmbs \cup {NoEmbedding} :
          LoadSamplesetsCall(b, t, <<>>, e)
    \/ \E b \in AllBqms, t \in EmbTargets, e \in AllEmbs \cup {NoEmbedding} :
          LoadSamplesetCall(b, t, <<>>, e)

SpecStore == InitStore /\ [][NextStore]_vars

---------------------------------------------------------------------------
(* Registering and resolving names *)

Kinds == {"bqm", "source", "target", "embedding"}
SetOp(kind) ==
    CASE kind = "bqm" -> "set_bqm_alias"
      [] kind = "source" -> "set_source_alias"
      [] kind = "target" -> "set_target_alias"
      [] kind = "embedding" -> "set_embedding_alias"

\* names are str; the names of embeddings are character sequences here
NamesOf(kind) == IF kind = "embedding" THEN {<<101>>, <<102>>} ELSE {"p", "q", "a", "g", ""}

\* id_bqm / id_source / id_target / id_embedding of a str
ResolveCall(kind, name) ==
    /\ aliases' = aliases
    /\ aliasDoc' = aliasDoc
    /\ ret' = [op |-> "resolve", ok |-> TRUE, kind |-> kind, name |-> name,
               val |-> CASE kind = "bqm" -> IdBqm(aliases, Str(name)).id
                         [] kind = "source" -> IdSource(aliases, Str(name)).id
                         [] kind = "target" -> IdTarget(aliases, Str(name)).id
                         [] kind = "embedding" ->
                               IdEmbedding(aliases, [kind |-> "str", val |-> name]).id]
    /\ UNCHANGED <<strhash, files, fpLog, ssLog, nops, embLog, procs, classAttrs, stores, embObjs>>

NamedGraph == CHOOSE g \in IntGraphs : g.val.edges # <<>>

NextAlias ==
    \/ \E b \in {"p", "q"}, alias \in {"p", "q"} : SetBqmAlias(Str(b), alias)
    \/ \E s \in {Str("p"), NamedGraph} : SetSourceAlias(s, "a")
    \/ \E t \in {Str("p"), Str("q")} : SetTargetAlias(t, "a")
    \/ \E e \in TagEmbs, alias \in NamesOf("embedding") : SetEmbeddingAlias(EmbArg(e), alias)
    \/ \E kind \in Kinds : \E name \in NamesOf(kind) : ResolveCall(kind, name)
    \/ Restart

SpecAlias == InitStore /\ [][NextAlias]_vars

---------------------------------------------------------------------------
(* Looking up one artifact: stored, stored elsewhere, or never stored *)

FindTags == {<<>>, <<"x">>}
TheSampleset == CHOOSE ss \in SsPool : TRUE
FindEmbs == {e \in EmbPool : Len(e.chains[0]) < MaxChain}
EmbIdStr(e) == [kind |-> "str", val |-> EmbId(e)]

NextFind ==
    \/ \E tags \in FindTags : DumpBqm(TheBqm, tags)
    \/ \E tags \in FindTags : DumpEmbedding(Str("s"), Str("t"), EmbArg(TheEmb), tags)
    \/ \E e \in FindEmbs, tags \in FindTags :
          DumpSampleset(Str("p"), Str("t"), EmbArg(e), TheSampleset, tags)
    \/ \E tags \in FindTags, index \in 0..MaxIndex : LoadBqmCall(TheBqm, tags, index)
    \/ \E tags \in FindTags, index \in 0..MaxIndex :
          LoadEmbeddingCall(Str("s"), Str("t"), tags, index)
    \/ \E e \in {NoEmbedding} \cup {EmbIdStr(x) : x \in FindEmbs}, tags \in FindTags :
          LoadSamplesetCall(Str("p"), Str("t"), tags, e)

SpecFind == InitStore /\ [][NextFind]_vars

---------------------------------------------------------------------------
(* Writers step by step.  A write is: the fingerprints (in memory, with the *)
(* alias flush they may trigger), get_path one directory after the other    *)
(* (isdir, then mkdir), for a result set the exists test and the read of    *)
(* the stored record, then open(path, 'w+'), which truncates, and the dump. *)

\* the tree a writer's file is in
TreeOf(op) ==
    CASE op = "dump_bqm" -> bqmFiles
      [] op = "dump_embedding" -> embFiles
      [] OTHER -> ssFiles

\* what a location holds
Held(F, loc) ==
    IF loc \in DOMAIN F THEN [held |-> TRUE, doc |-> F[loc]] ELSE [held |-> FALSE, doc |-> <<>>]

\* the call of writer p begins: the ids are computed
Begin(p, op, r, d, name, content) ==
    /\ procs[p].pc = "idle"
    /\ aliases' = r.al
    /\ aliasDoc' = DocAfter(r)
    /\ procs' = [procs EXCEPT ![p] =
          IF ~r.ok THEN [Idle EXCEPT !.pc = "done", !.op = op, !.err = "ValueError"]
          ELSE [Idle EXCEPT !.pc = "isdir", !.op = op, !.dir = d, !.i = 1,
                            !.loc = File(d, name), !.new = content, !.merged = content,
                            !.before = Held(TreeOf(op), File(d, name))]]
    /\ UNCHANGED <<strhash, files, ret, fpLog, ssLog, nops, embLog, classAttrs, stores, embObjs>>

BeginDumpBqm(p, bqm, tags) ==
    LET r1 == IdSource(aliases, bqm)
        r == After(r1, IdBqm(r1.al, bqm))
    IN Begin(p, "dump_bqm", r, BqmsDir(r1.id, tags), r.id, BqmSer(bqm.val))

BeginDumpEmbedding(p, source, target, embedding, tags) ==
    LET r1 == IdSource(aliases, source)
        r == After(r1, IdTarget(r1.al, target))
    IN Begin(p, "dump_embedding", r, EmbeddingsDir(r1.id, r.id, tags),
             EmbId(embedding.val) \o DotJson, EmberaEncode(embedding.val))

BeginDumpSampleset(p, bqm, target, embedding, sampleset, tags) ==
    LET r1 == IdBqm(aliases, bqm)
        r2 == After(r1, IdTarget(r1.al, target))
        r == After(r2, IdEmbedding(r2.al, embedding))
    IN Begin(p, "dump_sampleset", r, SamplesetsDir(r1.id, r2.id, tags), r.id \o DotJson,
             sampleset)

\* the directory get_path is at, and the writer after that directory
PathAt(p) == SubSeq(procs[p].dir, 1, procs[p].i)
NextDir(p) ==
    IF procs[p].i < Len(procs[p].dir)
    THEN [procs[p] EXCEPT !.i = procs[p].i + 1, !.pc = "isdir"]
    ELSE [procs[p] EXCEPT !.pc = IF procs[p].op = "dump_sampleset" THEN "exists" ELSE "open"]

Raise(p, err) == [procs[p] EXCEPT !.pc = "done", !.err = err]

\* get_path: if not os.path.isdir(path)
IsDir(p) ==
    /\ procs[p].pc = "isdir"
    /\ procs' = [procs EXCEPT ![p] =
          IF PathAt(p) \in dirs THEN NextDir(p) ELSE [procs[p] EXCEPT !.pc = "mkdir"]]
    /\ UNCHANGED <<strhash, aliases, aliasDoc, files, ret, fpLog, ssLog, nops, embLog, classAttrs, stores, embObjs>>

\* get_path: os.mkdir(path), FileExistsError when the directory is there
MkDir(p) ==
    /\ procs[p].pc = "mkdir"
    /\ IF PathAt(p) \in dirs
       THEN /\ procs' = [procs EXCEPT ![p] = Raise(p, "FileExistsError")]
            /\ dirs' = dirs
       ELSE /\ procs' = [procs EXCEPT ![p] = NextDir(p)]
            /\ dirs' = dirs \cup {PathAt(p)}
    /\ UNCHANGED <<strhash, aliases, aliasDoc, bqmFiles, embFiles, ssFiles, ret, fpLog,
                   ssLog, nops, embLog, classAttrs, stores, embObjs>>

\* dump_sampleset: if os.path.exists(sampleset_path)
Exists(p) ==
    /\ procs[p].pc = "exists"
    /\ procs' = [procs EXCEPT ![p] =
          [procs[p] EXCEPT !.pc = IF procs[p].loc \in DOMAIN ssFiles THEN "read" ELSE "open"]]
    /\ UNCHANGED <<strhash, aliases, aliasDoc, files, ret, fpLog, ssLog, nops, embLog, classAttrs, stores, embObjs>>

\* dump_sampleset: record = _load(fp); sampleset = dimod.concatenate(...)
ReadRecord(p) ==
    /\ procs[p].pc = "read"
    /\ procs' = [procs EXCEPT ![p] =
          IF ssFiles[procs[p].loc].type # "SampleSet"
          THEN Raise(p, "JSONDecodeError")
          ELSE [procs[p] EXCEPT
                   !.pc = "open", !.read = TRUE,
                   !.record = DimodDecode(ssFiles[procs[p].loc]),
                   !.merged = Concatenate(procs[p].new, DimodDecode(ssFiles[procs[p].loc]))]]
    /\ UNCHANGED <<strhash, aliases, aliasDoc, files, ret, fpLog, ssLog, nops, embLog, classAttrs, stores, embObjs>>

\* the file of writer p becomes doc
WriteFile(p, doc) ==
    /\ bqmFiles' = IF procs[p].op = "dump_bqm"
                   THEN (procs[p].loc :> doc) @@ bqmFiles ELSE bqmFiles
    /\ embFiles' = IF procs[p].op = "dump_embedding"
                   THEN (procs[p].loc :> doc) @@ embFiles ELSE embFiles
    /\ ssFiles' = IF procs[p].op = "dump_sampleset"
                  THEN (procs[p].loc :> doc) @@ ssFiles ELSE ssFiles

\* open(path, 'w+'): the file is created or truncated
Open(p) ==
    /\ procs[p].pc = "open"
    /\ WriteFile(p, EmptyFile)
    /\ procs' = [procs EXCEPT ![p] = [procs[p] EXCEPT !.pc = "dump"]]
    /\ UNCHANGED <<strhash, aliases, aliasDoc, dirs, ret, fpLog, ssLog, nops, embLog, classAttrs, stores, embObjs>>

\* what the dump writes
Content(p) ==
    IF procs[p].op = "dump_sampleset" THEN DimodEncode(procs[p].merged) ELSE procs[p].new

\* _dump(..., fp) / json.dump(..., fp), to the end
Dump(p) ==
    /\ procs[p].pc = "dump"
    /\ WriteFile(p, Content(p))
    /\ procs' = [procs EXCEPT ![p] = [procs[p] EXCEPT !.pc = "done"]]
    /\ UNCHANGED <<strhash, aliases, aliasDoc, dirs, ret, fpLog, ssLog, nops, embLog, classAttrs, stores, embObjs>>

\* a part of a file: what a dump that did not reach the end leaves
PartialFile == [type |-> "partial"]

\* the dump fails or is interrupted: the file keeps what was written so far,
\* nothing or a part
DumpFails(p) ==
    /\ procs[p].pc = "dump"
    /\ \E doc \in {EmptyFile, PartialFile} : WriteFile(p, doc)
    /\ procs' = [procs EXCEPT ![p] = Raise(p, "write failed")]
    /\ UNCHANGED <<strhash, aliases, aliasDoc, dirs, ret, fpLog, ssLog, nops, embLog, classAttrs, stores, embObjs>>

AllIdle == \A p \in Procs : procs[p].pc = "idle"

\* two writers at once, after writes made one at a time
NextConc ==
    \/ \E ss \in SsPool : AllIdle /\ DumpSampleset(Str("p"), Str("t"), EmbArg(TheEmb), ss, <<>>)
    \/ \E p \in Procs : BeginDumpBqm(p, TheBqm, <<>>)
    \/ \E p \in Procs, e \in FindEmbs : BeginDumpEmbedding(p, Str("s"), Str("t"), EmbArg(e), <<>>)
    \/ \E p \in Procs, ss \in SsPool :
          BeginDumpSampleset(p, Str("p"), Str("t"), EmbArg(TheEmb), ss, <<>>)
    \/ \E p \in Procs : IsDir(p)
    \/ \E p \in Procs : MkDir(p)
    \/ \E p \in Procs : Exists(p)
    \/ \E p \in Procs : ReadRecord(p)
    \/ \E p \in Procs : Open(p)
    \/ \E p \in Procs : Dump(p)

SpecConc == InitStore /\ [][NextConc]_vars

\* no other writer is in a call
Alone(p) == \A q \in Procs \ {p} : procs[q].pc \in {"idle", "done"}

\* result sets written one call at a time, where the dump of a call may fail
NextFail ==
    \/ \E ss \in SsPool : AllIdle /\ DumpSampleset(Str("p"), Str("t"), EmbArg(TheEmb), ss, <<>>)
    \/ \E p \in Procs, ss \in SsPool :
          Alone(p) /\ BeginDumpSampleset(p, Str("p"), Str("t"), EmbArg(TheEmb), ss, <<>>)
    \/ \E p \in Procs : IsDir(p)
    \/ \E p \in Procs : MkDir(p)
    \/ \E p \in Procs : Exists(p)
    \/ \E p \in Procs : ReadRecord(p)
    \/ \E p \in Procs : Open(p)
    \/ \E p \in Procs : Dump(p)
    \/ \E p \in Procs : DumpFails(p)

SpecFail == InitStore /\ [][NextFail]_vars

---------------------------------------------------------------------------
(* The derived properties of an embedding.                                  *)

\* list.pop(): the last item
Pop(list) == list[Len(list)]

\* max_chain: hist = self.quality_key; return hist.pop()
max_chain(e) == Pop(QualityKey(e))

\* sum([QK[i]*QK[i+1] for i in range(0,len(QK),2)])
RECURSIVE SumPairs(_, _)
SumPairs(QK, i) ==
    IF i > Len(QK) THEN 0 ELSE QK[i] * QK[i + 1] + SumPairs(QK, i + 2)

\* total_qubits
total_qubits(e) == SumPairs(QualityKey(e), 1)

\* one embedding for every assignment of chain lengths, and the empty one
PropPool ==
    {Embedding(IntId(1), IntId(2), Chains(lens)) : lens \in [EmbVars -> 1..MaxLen]}
    \cup {Embedding(IntId(1), IntId(2), <<>>)}

\* a property of e is read: its value, and the embedding and the quality key
\* read after it (quality_key builds a new list at every read, so the pop
\* takes from a list nothing else holds)
PropertyRead(op, e, ok, val) ==
    /\ nops < MaxOps
    /\ nops' = nops + 1
    /\ ret' = [op |-> op, ok |-> ok, val |-> val, e |-> e, after |-> e,
               key_after |-> QualityKey(e)]
    /\ UNCHANGED <<strhash, aliases, aliasDoc, files, fpLog, ssLog, embLog, procs, classAttrs, stores, embObjs>>

\* e.max_chain; IndexError (pop from empty list) for the empty embedding
MaxChainCall(e) ==
    IF QualityKey(e) = <<>>
    THEN PropertyRead("max_chain", e, FALSE, "IndexError")
    ELSE PropertyRead("max_chain", e, TRUE, max_chain(e))

\* e.total_qubits
TotalQubitsCall(e) == PropertyRead("total_qubits", e, TRUE, total_qubits(e))

NextProps ==
    \/ \E e \in PropPool : MaxChainCall(e)
    \/ \E e \in PropPool : TotalQubitsCall(e)

SpecProps == InitStore /\ [][NextProps]_vars

---------------------------------------------------------------------------
(* Several instances in one process.  aliases = {} and properties = {} are  *)
(* class attributes: an instance reads the dict of its class until an       *)
(* assignment self.<name> = ... gives it one of its own.                    *)

\* self.aliases of the instance on root i
TableOf(i) == IF stores[i].own THEN stores[i].al ELSE classAttrs.aliases

\* EmberaDataBase(root i): self.aliases = _load(fp) when aliases.json exists
NewStore(i) ==
    /\ stores' = [stores EXCEPT ![i] =
          [stores[i] EXCEPT !.made = TRUE, !.own = stores[i].doc.exists,
                            !.al = IF stores[i].doc.exists THEN stores[i].doc.tab
                                   ELSE NoAliases]]
    /\ ret' = [op |-> "EmberaDataBase", ok |-> TRUE, store |-> i]
    /\ UNCHANGED <<strhash, aliases, aliasDoc, files, fpLog, ssLog, nops, embLog, procs,
                   classAttrs, embObjs>>

\* set_bqm_alias through the instance on root i: the item assignments go to
\* the dict self.aliases names, update_aliases dumps it to the root's file
StoreSetBqmAlias(i, bqm, alias) ==
    LET r == Register(IdBqm(TableOf(i), bqm), "bqm", alias) IN
    /\ stores[i].made
    /\ stores' = [stores EXCEPT ![i] =
          [stores[i] EXCEPT !.al = IF stores[i].own THEN r.al ELSE stores[i].al,
                            !.doc = [exists |-> TRUE, tab |-> r.al],
                            !.reg = stores[i].reg \cup {<<alias, r.id>>}]]
    /\ classAttrs' = IF stores[i].own THEN classAttrs
                     ELSE [classAttrs EXCEPT !.aliases = r.al]
    /\ ret' = [op |-> "set_bqm_alias", ok |-> TRUE, store |-> i, val |-> r.id,
               alias |-> alias]
    /\ UNCHANGED <<strhash, aliases, aliasDoc, files, fpLog, ssLog, nops, embLog, procs,
                   embObjs>>

\* id_bqm(name) through the instance on root i
StoreIdBqm(i, name) ==
    /\ stores[i].made
    /\ ret' = [op |-> "id_bqm", ok |-> TRUE, store |-> i, name |-> name,
               val |-> IdBqm(TableOf(i), Str(name)).id]
    /\ UNCHANGED <<strhash, aliases, aliasDoc, files, fpLog, ssLog, nops, embLog, procs,
                   classAttrs, stores, embObjs>>

\* Embedding(source, target, embedding, **properties):
\* self.properties.update(properties)
NewEmbedding(properties) ==
    /\ Len(embObjs) < MaxOps
    /\ classAttrs' = [classAttrs EXCEPT !.properties = properties @@ @]
    /\ embObjs' = Append(embObjs, [given |-> properties])
    /\ ret' = [op |-> "Embedding", ok |-> TRUE]
    /\ UNCHANGED <<strhash, aliases, aliasDoc, files, fpLog, ssLog, nops, embLog, procs,
                   stores>>

\* self.properties of the k-th Embedding constructed
PropertiesOf(k) == classAttrs.properties

\* the keyword arguments an Embedding is constructed with
PropArgs == {<<>>, "a" :> 1, "a" :> 2, "b" :> 1}

NextInst ==
    \/ \E i \in Roots : NewStore(i)
    \/ \E i \in Roots, alias \in {"x", "y"} : StoreSetBqmAlias(i, Str("p"), alias)
    \/ \E i \in Roots, name \in {"x", "y"} : StoreIdBqm(i, name)
    \/ \E properties \in PropArgs : NewEmbedding(properties)

SpecInst == InitStore /\ [][NextInst]_vars

---------------------------------------------------------------------------
(* Result sets narrowed by embedding: the embedding is given as a str, one  *)
(* fingerprint a part of the other                                          *)

\* the fingerprints "e" and "ef", as str arguments
NarrowEmbs == {[kind |-> "str", val |-> <<101>>], [kind |-> "str", val |-> <<101, 102>>]}

NextNarrow ==
    \/ \E embedding \in NarrowEmbs, ss \in SsPool :
          DumpSampleset(Str("p"), Str("t"), embedding, ss, <<>>)
    \/ \E embedding \in NarrowEmbs : LoadSamplesetsCall(Str("p"), Str("t"), <<>>, embedding)

SpecNarrow == InitStore /\ [][NextNarrow]_vars

---------------------------------------------------------------------------
(* Reads after writes, with graph objects and strs as arguments             *)

ReadSources == {Str("s"), NamedGraph, TheBqm}
ReadTargets == {Str("t"), NamedGraph}
ReadBqms == {Str("p"), TheBqm}

NextReads ==
    \/ DumpBqm(TheBqm, <<>>)
    \/ DumpEmbedding(Str("s"), Str("t"), EmbArg(TheEmb), <<>>)
    \/ DumpSampleset(Str("p"), Str("t"), EmbArg(TheEmb), TheSampleset, <<>>)
    \/ \E s \in ReadSources : LoadBqmsCall(s, <<>>)
    \/ \E s \in ReadSources : LoadBqmCall(s, <<>>, 0)
    \/ \E s \in ReadSources, t \in ReadTargets : LoadEmbeddingsCall(s, t, <<>>)
    \/ \E s \in ReadSources, t \in ReadTargets : LoadEmbeddingCall(s, t, <<>>, 0)
    \/ \E b \in ReadBqms, t \in ReadTargets, e \in {NoEmbedding, EmbIdStr(TheEmb)} :
          LoadSamplesetsCall(b, t, <<>>, e)
    \/ \E b \in ReadBqms, t \in ReadTargets, e \in {NoEmbedding, EmbIdStr(TheEmb)} :
          LoadSamplesetCall(b, t, <<>>, e)

SpecReads == InitStore /\ [][NextReads]_vars

---------------------------------------------------------------------------
(* Embeddings of equal quality: two one-node chains, placed anywhere *)

IdPool ==
    {Embedding(IntId(1), IntId(2), (0 :> <<a>> @@ 1 :> <<b>>)) :
        a \in 0..MaxNode, b \in 0..MaxNode}

NextColl ==
    \/ \E s \in EmbSources, t \in EmbTargets, e \in IdPool :
          DumpEmbedding(s, t, EmbArg(e), <<>>)
    \/ \E s \in EmbSources, t \in EmbTargets : LoadEmbeddingsCall(s, t, <<>>)

SpecColl == InitStore /\ [][NextColl]_vars

\* a.id and b.id are read for two embeddings (once per run)
IdCall(a, b) ==
    /\ ret.op = "none"
    /\ ret' = [op |-> "id", ok |-> TRUE, a |-> a, b |-> b, ida |-> EmbId(a), idb |-> EmbId(b)]
    /\ UNCHANGED <<strhash, aliases, aliasDoc, files, fpLog, ssLog, nops, embLog, procs, classAttrs, stores, embObjs>>

NextIds == \E a, b \in IdPool : IdCall(a, b)

SpecIds == InitStore /\ [][NextIds]_vars

---------------------------------------------------------------------------
(* Claims about the fingerprints *)

IsGraphObject(a) == a.kind \in {"graph", "list", "bqm"}
IsGraphFp(e) == e.fn \in {"id_source", "id_target"} /\ IsGraphObject(e.arg) /\ e.ok

SameArg(a, b) == a.kind = b.kind /\ a = b

\* the nodes and the undirected edges a graph argument shows
NodesOf(g) ==
    IF g.kind = "graph" THEN g.val.nodes
    ELSE UNION {{e[1], e[2]} : e \in Range(EdgesOf(g))}
UEdges(g) == {{e[1], e[2]} : e \in Range(EdgesOf(g))}

\* h is g with its nodes relabelled by some bijection
IsRelabelling(g, h) ==
    \E f \in [NodesOf(g) -> NodesOf(h)] :
        /\ \A u, v \in NodesOf(g) : f[u] = f[v] => u = v
        /\ \A w \in NodesOf(h) : \E u \in NodesOf(g) : f[u] = w
        /\ UEdges(h) = {{f[u] : u \in e} : e \in UEdges(g)}

\* C6: fingerprinting a graph is deterministic: any two calls of id_source /
\* id_target on the same graph, in the same process or in two processes with
\* different hash salts, return the same string.
C6_Deterministic ==
    \A i, j \in DOMAIN fpLog :
        (IsGraphFp(fpLog[i]) /\ IsGraphFp(fpLog[j]) /\ SameArg(fpLog[i].arg, fpLog[j].arg))
            => fpLog[i].id = fpLog[j].id

\* C7: fingerprinting a graph is relabel-invariant: a graph and the same graph
\* with its nodes relabelled by a bijection get the same fingerprint (here
\* within one process, so that the hash salt plays no part).
C7_RelabelInvariant ==
    \A i, j \in DOMAIN fpLog :
        (/\ IsGraphFp(fpLog[i]) /\ IsGraphFp(fpLog[j])
         /\ fpLog[i].arg.kind = "graph" /\ fpLog[j].arg.kind = "graph"
         /\ fpLog[i].salt = fpLog[j].salt
         /\ IsRelabelling(fpLog[i].arg, fpLog[j].arg))
            => fpLog[i].id = fpLog[j].id

IsBqmFp(e) == e.fn = "id_bqm" /\ e.arg.kind = "bqm" /\ e.ok

\* C8: the problem fingerprint does not depend on the bias values: two
\* problems with the same variables and the same interacting pairs get the
\* same fingerprint from id_bqm.
C8_BiasInsensitive ==
    \A i, j \in DOMAIN fpLog :
        (/\ IsBqmFp(fpLog[i]) /\ IsBqmFp(fpLog[j])
         /\ fpLog[i].salt = fpLog[j].salt
         /\ DOMAIN fpLog[i].arg.val.linear = DOMAIN fpLog[j].arg.val.linear
         /\ DOMAIN fpLog[i].arg.val.quadratic = DOMAIN fpLog[j].arg.val.quadratic)
            => fpLog[i].id = fpLog[j].id

---------------------------------------------------------------------------
(* Claims about the order of embeddings *)

ChainSizes(e) == {Len(e.chains[v]) : v \in DOMAIN e.chains}

LargestChain(e) == CHOOSE n \in ChainSizes(e) : \A k \in ChainSizes(e) : k <= n

Trichotomy(lt, gt, eq) ==
    (lt \/ gt \/ eq) /\ ~(lt /\ gt) /\ ~(lt /\ eq) /\ ~(gt /\ eq)

\* C10: the order of embeddings by quality key is a total order in which a
\* shorter maximum chain sorts first: exactly one of a < b, b < a and
\* quality_key(a) = quality_key(b) holds, a < b and b < c give a < c, and a < b
\* whenever the largest chain of a is smaller than the largest chain of b.
C10_TotalOrder ==
    ret.op = "compare" =>
        /\ Trichotomy(ret.ab, ret.ba, QualityKey(ret.a) = QualityKey(ret.b))
        /\ (ret.ab /\ ret.bc) => ret.ac
        /\ (/\ ChainSizes(ret.a) # {} /\ ChainSizes(ret.b) # {}
            /\ LargestChain(ret.a) < LargestChain(ret.b)) => ret.ab

\* chain sizes {1,1,1} compared with {1,1,2}: the former is strictly first
C10_Witness ==
    /\ ret.op = "compare"
    /\ \A v \in DOMAIN ret.a.chains : Len(ret.a.chains[v]) = 1
    /\ Cardinality(DOMAIN ret.a.chains) = 3
    /\ Cardinality({v \in DOMAIN ret.b.chains : Len(ret.b.chains[v]) = 1}) = 2
    /\ Cardinality({v \in DOMAIN ret.b.chains : Len(ret.b.chains[v]) = 2}) = 1
    /\ Cardinality(DOMAIN ret.b.chains) = 3
    /\ ret.ab /\ ~ret.ba
    /\ ret.bc /\ ret.ac

---------------------------------------------------------------------------
(* Claims about the retrieval of embeddings *)

\* the embeddings stored under (source, target, tags): the files of that directory
StoredUnder(source_id, target_id, tags) ==
    {EmberaDecode(embFiles[k]) : k \in FilesIn(embFiles, EmbeddingsDir(source_id, target_id, tags))}

\* C3: load_embedding with index 0 returns an embedding whose quality key is
\* less than or equal to the quality key of every embedding stored under the
\* same (source, target, tags), whatever order the directory listing has.
C3_RankZeroIsBest ==
    (ret.op = "load_embedding" /\ ret.ok /\ ret.index = 0) =>
        \A e \in StoredUnder(ret.source_id, ret.target_id, ret.tags) :
            ListLe(QualityKey(ret.val), QualityKey(e))

IsPrefix(p, q) == Len(p) <= Len(q) /\ SubSeq(q, 1, Len(p)) = p

\* C4: load_embeddings returns all the embeddings stored under (source,
\* target, tags), in ascending order of quality key: every entry's key is <=
\* the key of the entry after it, as lists of integers.
C4_SortedByQualityKey ==
    (ret.op = "load_embeddings" /\ ret.ok) =>
        /\ Range(ret.entries) =
              {k \in DOMAIN embFiles :
                  IsPrefix(EmbeddingsDir(ret.source_id, ret.target_id, ret.tags), k.dir)}
        /\ \A i \in 1..(Len(ret.val) - 1) :
              ListLe(QualityKey(ret.val[i]), QualityKey(ret.val[i + 1]))

---------------------------------------------------------------------------
(* Claims about tags *)

\* the stored entries an enumeration ranges over, and the tag path of one
IsEnumeration == ret.op \in {"load_embeddings", "load_bqms"} /\ ret.ok
EnumBase ==
    IF ret.op = "load_embeddings" THEN <<"embeddings", ret.source_id, ret.target_id>>
    ELSE <<"bqms", ret.source_id>>
EnumStored ==
    IF ret.op = "load_embeddings" THEN {k \in DOMAIN embFiles : IsPrefix(EnumBase, k.dir)}
    ELSE {k \in DOMAIN bqmFiles : IsPrefix(EnumBase, k.dir)}
TagPath(k) == SubSeq(k.dir, Len(EnumBase) + 1, Len(k.dir))

\* C9 as claimed: an enumeration with tag filter F returns a stored entry
\* exactly when the entry's tag path contains every tag of F, wherever the
\* tags sit in the path and in whatever order.
C9_ConjunctiveFilter ==
    IsEnumeration =>
        Range(ret.entries) = {k \in EnumStored : Range(ret.tags) \subseteq Range(TagPath(k))}

\* C9 as amended: an enumeration with tag filter F returns a stored entry
\* exactly when F is a prefix of the entry's tag path.
C9_PrefixFilter ==
    IsEnumeration =>
        Range(ret.entries) = {k \in EnumStored : IsPrefix(ret.tags, TagPath(k))}

\* an entry written under [x, y] is returned for the filter [x], and an
\* entry written under [x] alone is stored too
C9_Witness ==
    /\ IsEnumeration
    /\ ret.tags = <<"x">>
    /\ \E k \in Range(ret.entries) : TagPath(k) = <<"x", "y">>
    /\ \E k \in Range(ret.entries) : TagPath(k) = <<"x">>

---------------------------------------------------------------------------
(* Claims about problems *)

\* where dump_bqm files the problem b under the given tags
BqmFile(b, tags) == File(BqmsDir(IdSource(aliases, b).id, tags), IdBqm(aliases, b).id)

\* dump_bqm(b, tags) has run and its file still holds what it wrote
IsStored(b, tags) ==
    /\ BqmFile(b, tags) \in DOMAIN bqmFiles
    /\ bqmFiles[BqmFile(b, tags)] = BqmSer(b.val)

---------------------------------------------------------------------------
(* Claims about result sets *)

\* the total occurrence count of the result sets written to a location
RECURSIVE WrittenTotal(_, _)
WrittenTotal(log, loc) ==
    IF log = <<>> THEN 0
    ELSE (IF Head(log).loc = loc THEN Total(Head(log).sampleset) ELSE 0)
         + WrittenTotal(Tail(log), loc)

StoredTotal(loc) == Total(DimodDecode(ssFiles[loc]))

\* C1: sequential merge-on-write keeps every sample: the result set stored at
\* a location has the total occurrence count of all the result sets written
\* there, count(A) + count(B) for two writes, whichever was written first.
C1_MergeKeepsCount ==
    \A loc \in DOMAIN ssFiles : StoredTotal(loc) = WrittenTotal(ssLog, loc)

\* two result sets with different counts written to one location
C1_Witness ==
    \E loc \in DOMAIN ssFiles :
        /\ Len(ssLog) = 2
        /\ ssLog[1].loc = loc /\ ssLog[2].loc = loc
        /\ Total(ssLog[1].sampleset) < Total(ssLog[2].sampleset)
        /\ StoredTotal(loc) = Total(ssLog[1].sampleset) + Total(ssLog[2].sampleset)

---------------------------------------------------------------------------
(* Claims about the embeddings kept in the store *)

\* the embeddings written so far, when all were written under the
\* directory the last load_embeddings enumerated
WrittenHere ==
    IF \A i \in DOMAIN embLog :
          embLog[i].dir = EmbeddingsDir(ret.source_id, ret.target_id, ret.tags)
    THEN {embLog[i].embedding : i \in DOMAIN embLog}
    ELSE {}

\* C11: embeddings are never merged or replaced: after dump_embedding of k
\* embeddings with pairwise different chains under one (source, target,
\* tags), load_embeddings for it returns exactly those k embeddings.
C11_NeverReplaced ==
    (ret.op = "load_embeddings" /\ ret.ok /\ WrittenHere # {}) =>
        /\ Range(ret.val) = WrittenHere
        /\ Len(ret.val) = Cardinality(WrittenHere)

---------------------------------------------------------------------------
(* Claims about aliases *)

IsSetOp(op) == op \in {SetOp(kind) : kind \in Kinds}

\* C12: alias mutations are write-through: when a set_*_alias call has
\* returned, aliases.json holds the in-memory table, and a store constructed
\* on the same root resolves every (kind, name) as this one does.
C12_WriteThrough ==
    (IsSetOp(ret.op) /\ ret.ok) =>
        /\ aliasDoc.exists
        /\ aliasDoc.tab = aliases
        /\ \A kind \in Kinds : \A name \in NamesOf(kind) :
              Resolve(ReloadedAliases, kind, name) = Resolve(aliases, kind, name)

\* after a registration under a second kind, with the first kind still there
C12_Witness ==
    /\ ret.op = "set_target_alias" /\ ret.ok
    /\ HasKind(aliases, "bqm") /\ HasKind(aliases, "target")
    /\ Resolve(ReloadedAliases, "bqm", "q") = "p"
    /\ Resolve(ReloadedAliases, "target", "a") = "q"

\* the names a successful set_*_alias step registers: the alias, and the
\* name of the graph it was given
Registered(kind, name) ==
    /\ ret'.op = SetOp(kind) /\ ret'.ok
    /\ \/ name = ret'.alias
       \/ /\ kind = "source" /\ name = NamedGraph.val.name
          /\ ret'.val = ToString(GraphKey(NamedGraph))

---------------------------------------------------------------------------
(* Claims about lookups *)

\* the stored entries that the lookup of ret ranges over: the files below
\* the directory of its (fingerprints, tags), for a result set those whose
\* name holds the embedding fingerprint asked for
Matching ==
    CASE ret.op = "load_bqm" ->
            {k \in DOMAIN bqmFiles : IsPrefix(BqmsDir(ret.source_id, ret.tags), k.dir)}
      [] ret.op = "load_embedding" ->
            {k \in DOMAIN embFiles :
                IsPrefix(EmbeddingsDir(ret.source_id, ret.target_id, ret.tags), k.dir)}
      [] ret.op = "load_sampleset" ->
            {k \in DOMAIN ssFiles :
                /\ IsPrefix(SamplesetsDir(ret.bqm_id, ret.target_id, ret.tags), k.dir)
                /\ IsSubstring(ret.embedding.val, k.name)}
      [] OTHER -> {}

NotFound == {"FileNotFoundError", "ValueError", "IndexError"}

BothWrote(p, q) ==
    /\ p # q
    /\ procs[p].op = "dump_sampleset" /\ procs[q].op = "dump_sampleset"
    /\ procs[p].pc = "done" /\ procs[q].pc = "done"
    /\ procs[p].err = "none" /\ procs[q].err = "none"
    /\ procs[p].loc = procs[q].loc
    /\ procs[p].read = procs[q].read
    /\ procs[p].record = procs[q].record

\* C15: two concurrent writers of one location that both read the stored
\* record before either wrote leave the record plus the rows of one of them:
\* the stored total is smaller than the prior total plus both written totals,
\* and neither call raised
C15_LostUpdate ==
    \A p, q \in Procs :
        BothWrote(p, q) =>
            /\ ssFiles[procs[p].loc].type = "SampleSet"
            /\ Total(DimodDecode(ssFiles[procs[p].loc]))
                   \in {Total(procs[p].record) + Total(procs[p].new),
                        Total(procs[p].record) + Total(procs[q].new)}
            /\ Total(DimodDecode(ssFiles[procs[p].loc]))
                   < Total(procs[p].record) + Total(procs[p].new) + Total(procs[q].new)

C15_Witness ==
    \E p, q \in Procs :
        /\ BothWrote(p, q)
        /\ procs[p].read
        /\ Total(procs[p].record) > 0
        /\ Total(procs[p].new) > 0 /\ Total(procs[q].new) > 0
        /\ Total(DimodDecode(ssFiles[procs[p].loc]))
               < Total(procs[p].record) + Total(procs[p].new) + Total(procs[q].new)


\* C16: two concurrent writes that resolve to different files both complete
\* without an error and both files hold what was written
C16_Independent ==
    \A p, q \in Procs :
        (/\ p # q
         /\ procs[p].pc = "done" /\ procs[q].pc = "done"
         /\ procs[p].loc # <<>> /\ procs[q].loc # <<>>
         /\ <<procs[p].op, procs[p].loc>> # <<procs[q].op, procs[q].loc>>)
        => /\ procs[p].err = "none"
           /\ procs[q].err = "none"
           /\ Held(TreeOf(procs[p].op), procs[p].loc) = [held |-> TRUE, doc |-> Content(p)]
           /\ Held(TreeOf(procs[q].op), procs[q].loc) = [held |-> TRUE, doc |-> Content(q)]


\* C19: after a result-set write whose dump failed, the location holds what it
\* held before the call, or nothing if it held nothing
C19_FailedWriteKeepsData ==
    \A p \in Procs :
        (procs[p].op = "dump_sampleset" /\ procs[p].pc = "done" /\ procs[p].err = "write failed")
        => Held(ssFiles, procs[p].loc) = procs[p].before


\* the length of the longest chain of a non-empty embedding
LongestChain(e) == SetMax({Len(e.chains[v]) : v \in DOMAIN e.chains})

\* C17: max_chain of a non-empty embedding is the length of its longest chain,
\* and a read of max_chain or total_qubits leaves the embedding and its
\* quality key as they were
C17_MaxChainIsLongest ==
    /\ (ret.op = "max_chain" /\ ret.ok) => ret.val = LongestChain(ret.e)
    /\ ret.op \in {"max_chain", "total_qubits"} =>
           ret.after = ret.e /\ ret.key_after = QualityKey(ret.e)


\* C18: two embeddings with the same source id, target id and quality key
\* but different chains have different ids
C18_IdsSeparate ==
    (/\ ret.op = "id"
     /\ ret.a.source_id = ret.b.source_id
     /\ ret.a.target_id = ret.b.target_id
     /\ QualityKey(ret.a) = QualityKey(ret.b)
     /\ ret.a.chains # ret.b.chains)
    => ret.ida # ret.idb


\* C20: what an instance on one root resolves, and what its alias document
\* holds, was registered through that root; and the properties of an
\* Embedding are the ones it was constructed with
C20_OwnedPerInstance ==
    /\ \A i \in Roots :
          stores[i].made =>
              /\ \A alias \in DOMAIN KindAliases(TableOf(i), "bqm") :
                     <<alias, KindAliases(TableOf(i), "bqm")[alias]>> \in stores[i].reg
              /\ \A alias \in DOMAIN KindAliases(stores[i].doc.tab, "bqm") :
                     <<alias, KindAliases(stores[i].doc.tab, "bqm")[alias]>> \in stores[i].reg
    /\ \A k \in DOMAIN embObjs : PropertiesOf(k) = embObjs[k].given


\* the result sets stored under the fingerprint an embedding argument
\* resolves to, anywhere in the samplesets tree
FiledUnder(embedding) ==
    {DimodDecode(ssFiles[k]) :
        k \in {f \in DOMAIN ssFiles :
                 f.name = IdEmbedding(aliases, embedding).id \o DotJson}}

\* C21: load_samplesets with an embedding fingerprint returns only result
\* sets stored under that fingerprint
C21_NarrowingIsExact ==
    (ret.op = "load_samplesets" /\ ret.ok /\ ret.embedding # NoEmbedding)
    => \A i \in DOMAIN ret.val : ret.val[i] \in FiledUnder(ret.embedding)


ReadOps ==
    {"load_bqm", "load_bqms", "load_embedding", "load_embeddings", "load_samplesets",
     "load_sampleset"}

\* C22: a read, whether it returns or raises, changes no file and no
\* directory, and leaves the alias table and the alias document as they were
C22_ReadsChangeNothing ==
    [][ret'.op \in ReadOps =>
          UNCHANGED <<aliases, aliasDoc, dirs, bqmFiles, embFiles, ssFiles>>]_vars

====
